---------------------------- MODULE Spec2Model ----------------------------
(***************************************************************************)
(* A model of the Reapprop_Automation scripts:                             *)
(*   - "Approp Text Blocks.py": split_budget_into_sections,                *)
(*     process_appropriations, process_reappropriations and main;          *)
(*   - "Extract Reapprop Details.py": extract_values_from_text and         *)
(*     process_csv;                                                        *)
(*   - "final_budget_comparison.py": BudgetAnalyzer.analyze_budgets,       *)
(*     _find_discrepancies, _generate_report and main.                     *)
(*                                                                         *)
(* Strings.  A line is a string of a finite alphabet.  A text (a page's    *)
(* text, a section's content, a record's text block) is a sequence of      *)
(* tokens: a non-empty line, or NL for the newline character; the empty    *)
(* line contributes no token, so the empty text is << >>.  str.strip and   *)
(* the regular expressions are tabulated over the alphabet.                *)
(***************************************************************************)
EXTENDS Integers, Sequences, FiniteSets, TLC

VARIABLES
    \* --- Approp Text Blocks.py: split_budget_into_sections and main
    pages,                 \* pdf.pages: the text of each page, in order
    page_num,              \* enumerate index of the next page (0-based)
    sections,
    current_section,
    current_agency,
    current_budget_type,
    current_fiscal_year,
    sp_pc,                 \* position in split_budget_into_sections
    m_pc,                  \* position in main
    m_k,                   \* number of sections main has processed
    appropriation_records,
    reappropriation_records,
    m_files,               \* CSV files main has written
    \* --- process_appropriations / process_reappropriations, run on their own
    content,
    lines,
    ln,                    \* number of lines the for loop has consumed
    current_chunk,
    records,
    fund_type,
    capturing,             \* extract_reappropriation_chunks: a citation has been seen
    chapter_header,        \* extract_reappropriation_chunks: the latest citation
    p_pc,
    \* --- Extract Reapprop Details.py: process_csv
    df,
    idx,
    en_pc,
    en_written,            \* df.to_csv(input_csv) has run
    en_responses,          \* what the service did for each record so far
    \* --- final_budget_comparison.py
    enacted_data,          \* self.enacted_data
    executive_data,        \* self.executive_data
    enacted_df,
    executive_df,
    executive_reappropriations,
    discrepancies,
    fd_i,                  \* rows the current iterrows loop has consumed
    fd_pc,                 \* position in _find_discrepancies
    returned,              \* the lists _find_discrepancies has returned, in order
    c_pc,                  \* position in main / analyze_budgets
    c_argc,                \* len(sys.argv)
    c_extracted,           \* the budgets extract_budget_data has returned for
    c_files,               \* output files written so far
    c_log                  \* what main's handlers have printed

splitVars == <<pages, page_num, sections, current_section, current_agency,
               current_budget_type, current_fiscal_year, sp_pc>>
mainVars == <<m_pc, m_k, appropriation_records, reappropriation_records, m_files>>
parseVars == <<content, lines, ln, current_chunk, records, fund_type, capturing,
               chapter_header, p_pc>>
enrichVars == <<df, idx, en_pc, en_written, en_responses>>
fdVars == <<enacted_data, executive_data, enacted_df, executive_df,
            executive_reappropriations, discrepancies, fd_i, fd_pc, returned>>
cmpVars == <<c_pc, c_argc, c_extracted, c_files, c_log>>

vars == <<splitVars, mainVars, parseVars, enrichVars, fdVars, cmpVars>>

-----------------------------------------------------------------------------
(* Bounds of the model. *)

MaxPages == 3
MaxLines == 4
MaxRows == 3
MaxEnacted == 2
MaxExecutive == 2
MaxCalls == 2

-----------------------------------------------------------------------------
(* Python values and string operations. *)

None == "<None>"
NL == "\n"

\* All sequences over S of length lo..hi.
SeqsOf(S, lo, hi) == UNION {[1..n -> S] : n \in lo..hi}

\* str.strip(): the alphabet's lines with leading or trailing whitespace.
strip(line) ==
    CASE line = " DEPT B "                  -> "DEPT B"
      [] line = "   "                       -> ""
      [] line = "  (67890) ..... $250.00"   -> "(67890) ..... $250.00"
      [] line = "  grants (re. $796,000) "  -> "grants (re. $796,000)"
      [] line = "  re. $12,000"             -> "re. $12,000"
      [] OTHER                              -> line

\* A line as a text: the empty line has no characters.
LineText(line) == IF line = "" THEN << >> ELSE <<line>>

\* "\n".join(texts)
RECURSIVE join(_)
join(texts) ==
    IF texts = << >> THEN << >>
    ELSE IF Len(texts) = 1 THEN texts[1]
    ELSE texts[1] \o <<NL>> \o join(Tail(texts))

\* "\n".join(lines) for a list of lines
joinLines(ls) == join([i \in 1..Len(ls) |-> LineText(ls[i])])

\* text.split("\n"): always at least one line
RECURSIVE split(_)
split(text) ==
    IF text = << >> THEN <<"">>
    ELSE LET init == split(SubSeq(text, 1, Len(text) - 1))
             last == text[Len(text)]
         IN  IF last = NL THEN Append(init, "")
             ELSE [init EXCEPT ![Len(init)] = last]

\* text.splitlines(): as split, but a final newline opens no further line
splitlines(text) ==
    LET parts == split(text)
    IN  IF parts[Len(parts)] = "" THEN SubSeq(parts, 1, Len(parts) - 1) ELSE parts


-----------------------------------------------------------------------------
(* Approp Text Blocks.py: the regular expressions, over the line alphabet. *)

\* header_pattern.search(budget_info).group(1), None without a match:
\* ^(AID TO LOCALITIES|STATE OPERATIONS|CAPITAL PROJECTS), re.IGNORECASE.
\* The group is the text as it stands in the line, in the line's letter case.
header_pattern(budget_info) ==
    CASE budget_info = "STATE OPERATIONS 2024-25"  -> "STATE OPERATIONS"
      [] budget_info = "STATE OPERATIONS 2025-26"  -> "STATE OPERATIONS"
      [] budget_info = "state operations 2024-25"  -> "state operations"
      [] budget_info = "AID TO LOCALITIES - REAPPROPRIATIONS 2025-26"
                                                   -> "AID TO LOCALITIES"
      [] OTHER                                     -> None

\* fiscal_year_pattern.search(budget_info).group(1), None without a match.
fiscal_year_pattern(budget_info) ==
    CASE budget_info = "STATE OPERATIONS 2024-25"  -> "2024-25"
      [] budget_info = "STATE OPERATIONS 2025-26"  -> "2025-26"
      [] budget_info = "state operations 2024-25"  -> "2024-25"
      [] budget_info = "AID TO LOCALITIES - REAPPROPRIATIONS 2025-26"
                                                   -> "2025-26"
      [] OTHER                                     -> None

\* appropriation_pattern.search(line).group(1), None without a match:
\* \((\d{5})\)\s+\.{3,}\s+\$amount
appropriation_code(line) ==
    CASE line = "(12345) ... $1,000"                        -> "12345"
      [] line = "(67890) ..... $250.00"                     -> "67890"
      [] line = "Fiduciary Funds (12345) ... $1,000"        -> "12345"
      [] OTHER                                              -> None

\* appropriation_pattern.search(line).group(0): the whole matched text.
appropriation_group0(line) ==
    CASE line = "(12345) ... $1,000"                        -> "(12345) ... $1,000"
      [] line = "(67890) ..... $250.00"                     -> "(67890) ..... $250.00"
      [] line = "Fiduciary Funds (12345) ... $1,000"        -> "(12345) ... $1,000"
      [] OTHER                                              -> None

\* fund_pattern.search(line).group(1), None without a match (re.IGNORECASE).
fund_pattern(line) ==
    CASE line = "General Fund"                              -> "General Fund"
      [] line = "Fiduciary Funds (12345) ... $1,000"        -> "Fiduciary Funds"
      [] OTHER                                              -> None

\* bool(reappropriation_pattern.search(line)): \(re\.\s?\$amount\)
reappropriation_pattern(line) ==
    line \in {"grants (re. $796,000)", "(re.$5,000)"}

\* "REAPPROPRIATIONS" in s, for a string s
ContainsREAPPROPRIATIONS(s) ==
    s \in {"AID TO LOCALITIES - REAPPROPRIATIONS 2025-26", "REAPPROPRIATIONS"}

-----------------------------------------------------------------------------
(* process_appropriations: one iteration of the for loop, and the flush. *)

PAStart == [current_chunk |-> << >>, records |-> << >>, fund_type |-> "Unknown"]

HighConfidenceRecord(st, ft, line) ==
    [Fund_Type          |-> ft,
     Appropriation_Code |-> appropriation_code(line),
     Appropriation      |-> joinLines(st.current_chunk),
     Dollar_Amount      |-> appropriation_group0(line),
     Confidence_Flag    |-> "High Confidence"]

NeedsReviewRecord(st) ==
    [Fund_Type          |-> st.fund_type,
     Appropriation_Code |-> "N/A",
     Appropriation      |-> joinLines(st.current_chunk),
     Dollar_Amount      |-> "N/A",
     Confidence_Flag    |-> "Needs Review"]

\* A loop that reads the fund type of a line only after closing the block.
PAStep_FundAfterRecord(st, raw) ==
    LET line == strip(raw)
        ft   == IF fund_pattern(line) # None THEN fund_pattern(line) ELSE st.fund_type
    IN  IF appropriation_code(line) # None
        THEN IF st.current_chunk # << >>
             THEN [current_chunk |-> <<line>>,
                   records       |-> Append(st.records,
                                            HighConfidenceRecord(st, st.fund_type, line)),
                   fund_type     |-> ft]
             ELSE [current_chunk |-> <<line>>,
                   records       |-> st.records,
                   fund_type     |-> ft]
        ELSE [current_chunk |-> Append(st.current_chunk, line),
              records       |-> st.records,
              fund_type     |-> ft]

\* A loop that emits a record on every match, an empty block included.
PAStep_RecordOnEveryMatch(st, raw) ==
    LET line == strip(raw)
        ft   == IF fund_pattern(line) # None THEN fund_pattern(line) ELSE st.fund_type
    IN  IF appropriation_code(line) # None
        THEN [current_chunk |-> <<line>>,
              records       |-> Append(st.records, HighConfidenceRecord(st, ft, line)),
              fund_type     |-> ft]
        ELSE [current_chunk |-> Append(st.current_chunk, line),
              records       |-> st.records,
              fund_type     |-> ft]

PAStep(st, raw) ==
    LET line == strip(raw)
        ft   == IF fund_pattern(line) # None THEN fund_pattern(line) ELSE st.fund_type
    IN  IF appropriation_code(line) # None
        THEN IF st.current_chunk # << >>
             THEN [current_chunk |-> <<line>>,
                   records       |-> Append(st.records, HighConfidenceRecord(st, ft, line)),
                   fund_type     |-> ft]
             ELSE [current_chunk |-> <<line>>,
                   records       |-> st.records,
                   fund_type     |-> ft]
        ELSE [current_chunk |-> Append(st.current_chunk, line),
              records       |-> st.records,
              fund_type     |-> ft]

PAFinish(st) ==
    IF st.current_chunk # << >>
    THEN Append(st.records, NeedsReviewRecord(st))
    ELSE st.records

RECURSIVE PAFold(_, _)
PAFold(st, ls) ==
    IF ls = << >> THEN st ELSE PAFold(PAStep(st, Head(ls)), Tail(ls))

process_appropriations(text) == PAFinish(PAFold(PAStart, split(text)))

(* process_reappropriations: one iteration of the for loop, and the flush. *)

PRStart == [current_chunk |-> << >>, records |-> << >>]

ReappropriationRecord(chunk) == [Reappropriation |-> joinLines(chunk)]

\* A loop that passes over blank lines.
PRStep_SkipBlank(st, raw) ==
    LET line == strip(raw)
    IN  IF line = "" THEN st
        ELSE IF reappropriation_pattern(line)
        THEN IF st.current_chunk # << >>
             THEN [current_chunk |-> <<line>>,
                   records |-> Append(st.records, ReappropriationRecord(st.current_chunk))]
             ELSE [current_chunk |-> <<line>>, records |-> st.records]
        ELSE [current_chunk |-> Append(st.current_chunk, line), records |-> st.records]

PRStep(st, raw) ==
    LET line == strip(raw)
    IN  IF reappropriation_pattern(line)
        THEN IF st.current_chunk # << >>
             THEN [current_chunk |-> <<line>>,
                   records |-> Append(st.records, ReappropriationRecord(st.current_chunk))]
             ELSE [current_chunk |-> <<line>>, records |-> st.records]
        ELSE [current_chunk |-> Append(st.current_chunk, line), records |-> st.records]

\* A parser that returns without flushing the open block.
PRFinish_NoFlush(st) == st.records

PRFinish(st) ==
    IF st.current_chunk # << >>
    THEN Append(st.records, ReappropriationRecord(st.current_chunk))
    ELSE st.records

RECURSIVE PRFold(_, _)
PRFold(st, ls) ==
    IF ls = << >> THEN st ELSE PRFold(PRStep(st, Head(ls)), Tail(ls))

process_reappropriations(text) == PRFinish(PRFold(PRStart, split(text)))

-----------------------------------------------------------------------------
(* The inputs of the model. *)

TitleLine == "NEW YORK STATE BUDGET"
\* The header lines of a page: its agency line and its budget-type line.

\* A page with no text, a page of two lines, and the pages with a header.
NoTextPage == << >>
ShortPage == joinLines(<<TitleLine, "DEPT A">>)
Headers ==
    {<<"DEPT A",   "STATE OPERATIONS 2024-25">>,
     <<"DEPT A",   "STATE OPERATIONS 2025-26">>,
     <<"DEPT A",   "state operations 2024-25">>,
     <<"DEPT A",   "TOTAL STATE OPERATIONS">>,
     <<" DEPT B ", "STATE OPERATIONS 2024-25">>,
     <<" DEPT B ", "AID TO LOCALITIES - REAPPROPRIATIONS 2025-26">>,
     <<" DEPT B ", "TOTAL STATE OPERATIONS">>,
     <<"   ",      "STATE OPERATIONS 2024-25">>,
     <<"   ",      "TOTAL STATE OPERATIONS">>}
HeaderPages == {joinLines(<<TitleLine, h[1], h[2]>>) : h \in Headers}
BodyPage == joinLines(<<TitleLine, "DEPT A", "STATE OPERATIONS 2024-25",
                        "General Fund", "(12345) ... $1,000">>)
PageTexts == {NoTextPage, ShortPage, BodyPage} \cup HeaderPages

-----------------------------------------------------------------------------
(* split_budget_into_sections *)

\* The page is skipped: no text, or fewer than 3 lines.
PageSkipped(text) == text = << >> \/ Len(splitlines(text)) < 3

agency_of(text) == strip(splitlines(text)[2])
budget_info_of(text) == strip(splitlines(text)[3])

\* A splitter that forgets the running budget type on a page without a match.
budget_type_of_NoCarry(text, cur) == header_pattern(budget_info_of(text))

\* A splitter that takes the whole budget line as the budget type.
budget_type_of_WholeLine(text, cur) ==
    IF header_pattern(budget_info_of(text)) # None
    THEN budget_info_of(text) ELSE cur

\* budget_match.group(1) if budget_match else current_budget_type
budget_type_of(text, cur) ==
    IF header_pattern(budget_info_of(text)) # None
    THEN header_pattern(budget_info_of(text)) ELSE cur

\* fiscal_match.group(1) if fiscal_match else current_fiscal_year
fiscal_year_of(text, cur) ==
    IF fiscal_year_pattern(budget_info_of(text)) # None
    THEN fiscal_year_pattern(budget_info_of(text)) ELSE cur

\* A splitter that also starts a section when the fiscal year changes.
NewSection_OnFiscalYear(text) ==
    \/ agency_of(text) # current_agency
    \/ budget_type_of(text, current_budget_type) # current_budget_type
    \/ fiscal_year_of(text, current_fiscal_year) # current_fiscal_year

\* The page starts a new section.
NewSection(text) ==
    \/ agency_of(text) # current_agency
    \/ budget_type_of(text, current_budget_type) # current_budget_type

\* A closed section whose page_end is the 1-based number of the closing page.
ClosedSection_EndsAtClosingPage(n) ==
    [agency      |-> current_agency,
     budget_type |-> current_budget_type,
     fiscal_year |-> current_fiscal_year,
     content     |-> join(current_section),
     page_start  |-> n - Len(current_section) + 1,
     page_end    |-> n + 1]

\* The section closed at page index n (0-based) of the loop.
ClosedSection(n) ==
    [agency      |-> current_agency,
     budget_type |-> current_budget_type,
     fiscal_year |-> current_fiscal_year,
     content     |-> join(current_section),
     page_start  |-> n - Len(current_section) + 1,
     page_end    |-> n]

\* The section appended after the loop.
LastSection ==
    [agency      |-> current_agency,
     budget_type |-> current_budget_type,
     fiscal_year |-> current_fiscal_year,
     content     |-> join(current_section),
     page_start  |-> Len(pages) - Len(current_section) + 1,
     page_end    |-> Len(pages)]

\* A flush that appends the open section without testing it.
FlushedSections_Unconditional == Append(sections, LastSection)

\* The sections after the loop: the open section, if any, is appended.
FlushedSections ==
    IF current_section # << >> THEN Append(sections, LastSection) ELSE sections

Split_SkipPage ==
    /\ sp_pc = "pages"
    /\ page_num < Len(pages)
    /\ PageSkipped(pages[page_num + 1])
    /\ page_num' = page_num + 1
    /\ UNCHANGED <<pages, sections, current_section, current_agency,
                   current_budget_type, current_fiscal_year, sp_pc>>
    /\ UNCHANGED <<mainVars, parseVars, enrichVars, fdVars, cmpVars>>

Split_Page ==
    /\ sp_pc = "pages"
    /\ page_num < Len(pages)
    /\ ~PageSkipped(pages[page_num + 1])
    /\ LET text == pages[page_num + 1]
       IN  IF NewSection(text)
           THEN /\ sections' = IF current_section # << >>
                               THEN Append(sections, ClosedSection(page_num))
                               ELSE sections
                /\ current_section' = <<text>>
                /\ current_agency' = agency_of(text)
                /\ current_budget_type' = budget_type_of(text, current_budget_type)
                /\ current_fiscal_year' = fiscal_year_of(text, current_fiscal_year)
           ELSE /\ current_section' = Append(current_section, text)
                /\ UNCHANGED <<sections, current_agency, current_budget_type,
                               current_fiscal_year>>
    /\ page_num' = page_num + 1
    /\ UNCHANGED <<pages, sp_pc>>
    /\ UNCHANGED <<mainVars, parseVars, enrichVars, fdVars, cmpVars>>

Split_Flush ==
    /\ sp_pc = "pages"
    /\ page_num = Len(pages)
    /\ sections' = FlushedSections
    /\ sp_pc' = "returned"
    /\ UNCHANGED <<pages, page_num, current_section, current_agency,
                   current_budget_type, current_fiscal_year>>
    /\ UNCHANGED <<mainVars, parseVars, enrichVars, fdVars, cmpVars>>

-----------------------------------------------------------------------------
(* Approp Text Blocks.py: main *)

\* select_file(): a path, or the empty string when the dialog is cancelled.
Main_Select ==
    /\ m_pc = "select"
    /\ \E selected \in BOOLEAN :
         IF selected
         THEN /\ m_pc' = "split"
              /\ sp_pc' = "pages"
         ELSE /\ m_pc' = "exit"
              /\ UNCHANGED sp_pc
    /\ UNCHANGED <<pages, page_num, sections, current_section, current_agency,
                   current_budget_type, current_fiscal_year>>
    /\ UNCHANGED <<m_k, appropriation_records, reappropriation_records, m_files>>
    /\ UNCHANGED <<parseVars, enrichVars, fdVars, cmpVars>>

\* One iteration of `for section in sections`.  `"REAPPROPRIATIONS" in
\* budget_type` raises TypeError when budget_type is None.
Main_Section ==
    /\ m_pc = "split"
    /\ sp_pc = "returned"
    /\ m_k < Len(sections)
    /\ LET section == sections[m_k + 1]
       IN  IF section.budget_type = None
           THEN /\ m_pc' = "raised"
                /\ UNCHANGED <<m_k, appropriation_records, reappropriation_records>>
           ELSE /\ m_k' = m_k + 1
                /\ m_pc' = m_pc
                /\ IF ContainsREAPPROPRIATIONS(section.budget_type)
                   THEN /\ reappropriation_records' = reappropriation_records
                               \o process_reappropriations(section.content)
                        /\ UNCHANGED appropriation_records
                   ELSE /\ appropriation_records' = appropriation_records
                               \o process_appropriations(section.content)
                        /\ UNCHANGED reappropriation_records
    /\ UNCHANGED <<m_files, splitVars, parseVars, enrichVars, fdVars, cmpVars>>

\* After the loop: each CSV is written when its record list is not empty.
Main_Save ==
    /\ m_pc = "split"
    /\ sp_pc = "returned"
    /\ m_k = Len(sections)
    /\ m_files' = (IF appropriation_records # << >> THEN {"Appropriations.csv"} ELSE {})
                  \cup (IF reappropriation_records # << >>
                        THEN {"Reappropriations.csv"} ELSE {})
    /\ m_pc' = "done"
    /\ UNCHANGED <<m_k, appropriation_records, reappropriation_records>>
    /\ UNCHANGED <<splitVars, parseVars, enrichVars, fdVars, cmpVars>>

-----------------------------------------------------------------------------
(* The components at rest. *)

SplitIdle ==
    /\ page_num = 0
    /\ sections = << >>
    /\ current_section = << >>
    /\ current_agency = None
    /\ current_budget_type = None
    /\ current_fiscal_year = None

MainIdle ==
    /\ pages = << >>
    /\ SplitIdle
    /\ sp_pc = "idle"
    /\ m_pc = "idle"
    /\ m_k = 0
    /\ appropriation_records = << >>
    /\ reappropriation_records = << >>
    /\ m_files = {}

ParseIdle ==
    /\ content = << >>
    /\ lines = << >>
    /\ ln = 0
    /\ current_chunk = << >>
    /\ records = << >>
    /\ fund_type = "Unknown"
    /\ capturing = FALSE
    /\ chapter_header = ""
    /\ p_pc = "idle"

EnrichIdle ==
    /\ df = << >>
    /\ idx = 0
    /\ en_pc = "idle"
    /\ en_written = FALSE
    /\ en_responses = << >>

FdIdle ==
    /\ enacted_data = << >>
    /\ executive_data = << >>
    /\ enacted_df = << >>
    /\ executive_df = << >>
    /\ executive_reappropriations = {}
    /\ discrepancies = << >>
    /\ fd_i = 0
    /\ fd_pc = "idle"
    /\ returned = << >>

CmpIdle ==
    /\ c_pc = "idle"
    /\ c_argc = 1
    /\ c_extracted = {}
    /\ c_files = {}
    /\ c_log = << >>

-----------------------------------------------------------------------------
(* Approp Text Blocks.py run on a document of up to MaxPages pages. *)

Init ==
    /\ pages \in SeqsOf(PageTexts, 0, MaxPages)
    /\ SplitIdle
    /\ sp_pc = "idle"
    /\ m_pc = "select"
    /\ m_k = 0
    /\ appropriation_records = << >>
    /\ reappropriation_records = << >>
    /\ m_files = {}
    /\ ParseIdle /\ EnrichIdle /\ FdIdle /\ CmpIdle

Next ==
    \/ Main_Select
    \/ Split_SkipPage
    \/ Split_Page
    \/ Split_Flush
    \/ Main_Section
    \/ Main_Save

Spec == Init /\ [][Next]_vars

-----------------------------------------------------------------------------
(* Properties of split_budget_into_sections and main (Spec). *)

\* The loop is at a page with a header while a section is open.
AtHeaderPage ==
    /\ sp_pc = "pages"
    /\ page_num < Len(pages)
    /\ ~PageSkipped(pages[page_num + 1])
    /\ current_section # << >>

ThisPage == pages[page_num + 1]

\* The page is appended to the open section; nothing is closed or restarted.
PageJoinsOpenSection ==
    /\ sections' = sections
    /\ current_section' = Append(current_section, ThisPage)
    /\ current_agency' = current_agency
    /\ current_budget_type' = current_budget_type
    /\ current_fiscal_year' = current_fiscal_year

\* The page closes the open section and starts a new one.
PageClosesOpenSection ==
    /\ Len(sections') = Len(sections) + 1
    /\ sections'[Len(sections')].content = join(current_section)
    /\ current_section' = <<ThisPage>>
    /\ current_agency' = agency_of(ThisPage)

\* C5 as stated: a page with at least 3 lines whose agency line is blank or
\* whose budget-type line matches no header literal is appended to the open
\* section with agency, budget type and fiscal year carried forward; it never
\* closes the open section or starts a new one.
C5_StickyAgencyAndBudgetType ==
    [][(/\ AtHeaderPage
        /\ \/ agency_of(ThisPage) = ""
           \/ header_pattern(budget_info_of(ThisPage)) = None
        /\ page_num' = page_num + 1)
       => PageJoinsOpenSection]_vars

\* C5 amended: a page with at least 3 lines whose budget-type line matches no
\* header literal keeps the running budget type (and the running fiscal year
\* when the line holds no fiscal-year token); it is appended to the open
\* section exactly when its stripped agency line equals the running agency.
\* A page whose agency line differs from the running agency, a blank line
\* included, closes the open section and starts a new one under that agency.
C5_StickyBudgetTypeOnly ==
    [][(AtHeaderPage /\ page_num' = page_num + 1)
       => /\ header_pattern(budget_info_of(ThisPage)) = None
             => /\ current_budget_type' = current_budget_type
                /\ fiscal_year_pattern(budget_info_of(ThisPage)) = None
                      => current_fiscal_year' = current_fiscal_year
                /\ agency_of(ThisPage) = current_agency => PageJoinsOpenSection
          /\ agency_of(ThisPage) # current_agency => PageClosesOpenSection]_vars

\* C5 witness: the page just consumed matched no header literal and joined the
\* open section under the budget type of an earlier page.
C5_Witness ==
    /\ sp_pc = "pages"
    /\ page_num >= 2
    /\ ~PageSkipped(pages[page_num])
    /\ header_pattern(budget_info_of(pages[page_num])) = None
    /\ Len(current_section) >= 2
    /\ current_section[Len(current_section)] = pages[page_num]
    /\ current_budget_type # None

\* The case of C6: two pages with headers, the second differing from the first
\* in agency or in (effective) budget type.
C6_Case ==
    /\ Len(pages) = 2
    /\ ~PageSkipped(pages[1])
    /\ ~PageSkipped(pages[2])
    /\ \/ agency_of(pages[2]) # agency_of(pages[1])
       \/ budget_type_of(pages[2], budget_type_of(pages[1], None))
             # budget_type_of(pages[1], None)

\* C6: for such a two-page input the splitter returns exactly two sections,
\* with page ranges [1,1] and [2,2].
C6_TwoSections ==
    (sp_pc = "returned" /\ C6_Case)
    => /\ Len(sections) = 2
       /\ sections[1].page_start = 1 /\ sections[1].page_end = 1
       /\ sections[2].page_start = 2 /\ sections[2].page_end = 2

\* C6 witness: the splitter has returned on such an input.
C6_Witness == sp_pc = "returned" /\ C6_Case

\* C7: when every page has no text or fewer than 3 lines, the splitter
\* returns zero sections.
C7_NoSections ==
    (sp_pc = "returned" /\ \A i \in 1..Len(pages) : PageSkipped(pages[i]))
    => sections = << >>

\* C7 witness: the splitter has returned on a document holding both a page
\* without text and a page of fewer than 3 lines, and no other page.
C7_Witness ==
    /\ sp_pc = "returned"
    /\ \A i \in 1..Len(pages) : PageSkipped(pages[i])
    /\ \E i \in 1..Len(pages) : pages[i] = NoTextPage
    /\ \E i \in 1..Len(pages) : pages[i] = ShortPage

\* C9 as stated: main never raises, whatever sections the splitter produced:
\* every section is processed and the run completes.
C9_MainNeverRaises ==
    /\ m_pc # "raised"
    /\ m_pc = "done" => m_k = Len(sections)

\* The numbers (1-based) of the pages among the first n that have a header.
HeaderPagesUpTo(n) == {i \in 1..n : ~PageSkipped(pages[i])}

\* The last k of them: the pages an open section of k pages holds once the
\* loop has consumed n pages.
PagesOfOpenSection(n, k) ==
    {i \in HeaderPagesUpTo(n) : Cardinality({j \in HeaderPagesUpTo(n) : j >= i}) <= k}

Minimum(S) == CHOOSE x \in S : \A y \in S : x <= y
Maximum(S) == CHOOSE x \in S : \A y \in S : x >= y

\* C11 as stated: whenever a section is appended, in the loop or by the final
\* flush, and whatever pages were skipped, its page_start and page_end are the
\* 1-based numbers of the first and the last page whose text its content holds.
C11_PageRangeIsContent ==
    [][Len(sections') = Len(sections) + 1
       => LET held == PagesOfOpenSection(page_num, Len(current_section))
              s    == sections'[Len(sections')]
          IN  /\ s.content = join(current_section)
              /\ s.page_start = Minimum(held)
              /\ s.page_end = Maximum(held)]_vars

-----------------------------------------------------------------------------
(* main: where the sections are routed (Spec). *)

\* s.upper(), for the budget types of the alphabet.
upper(s) == CASE s = "state operations" -> "STATE OPERATIONS" [] OTHER -> s

\* The three literals of header_pattern.
HeaderLiterals == {"AID TO LOCALITIES", "STATE OPERATIONS", "CAPITAL PROJECTS"}

\* What process_appropriations returns for the first k sections, in order.
RECURSIVE AppropriationsOf(_)
AppropriationsOf(k) ==
    IF k = 0 THEN << >>
    ELSE AppropriationsOf(k - 1) \o process_appropriations(sections[k].content)

\* C19: the budget type of every section is null or the text matched by one of
\* the three header literals; no section is routed to process_reappropriations:
\* the sections processed so far all went to process_appropriations, the
\* reappropriation record list is empty and Reappropriations.csv is not written.
C19_AllSectionsToAppropriations ==
    /\ \A i \in 1..Len(sections) :
         \/ sections[i].budget_type = None
         \/ upper(sections[i].budget_type) \in HeaderLiterals
    /\ reappropriation_records = << >>
    /\ "Reappropriations.csv" \notin m_files
    /\ sp_pc = "returned" => appropriation_records = AppropriationsOf(m_k)
    /\ m_pc = "done" => m_k = Len(sections)

\* C19 witness: the run has completed on a document with a page whose budget
\* line reads "... REAPPROPRIATIONS ..." and has written Appropriations.csv.
C19_Witness ==
    /\ m_pc = "done"
    /\ \E i \in 1..Len(pages) :
         /\ ~PageSkipped(pages[i])
         /\ ContainsREAPPROPRIATIONS(budget_info_of(pages[i]))
    /\ \E i \in 1..Len(sections) : sections[i].budget_type = "AID TO LOCALITIES"
    /\ m_files = {"Appropriations.csv"}

-----------------------------------------------------------------------------
(* split_budget_into_sections: where sections close (Spec). *)

\* The loop is at a page with at least 3 lines.
AtPageWithHeader ==
    /\ sp_pc = "pages"
    /\ page_num < Len(pages)
    /\ ~PageSkipped(pages[page_num + 1])

\* The page's agency line or its effective budget type differs from the
\* running values.
PageDiffers ==
    \/ agency_of(ThisPage) # current_agency
    \/ budget_type_of(ThisPage, current_budget_type) # current_budget_type

-----------------------------------------------------------------------------
(* process_appropriations run on a text of up to MaxLines lines. *)

ApLines == {"For services and expenses", "(12345) ... $1,000",
            "  (67890) ..... $250.00", "General Fund", "",
            "Fiduciary Funds (12345) ... $1,000"}

PA_Line ==
    /\ p_pc = "appropriations"
    /\ ln < Len(lines)
    /\ LET st == PAStep([current_chunk |-> current_chunk, records |-> records,
                         fund_type |-> fund_type], lines[ln + 1])
       IN  /\ current_chunk' = st.current_chunk
           /\ records' = st.records
           /\ fund_type' = st.fund_type
    /\ ln' = ln + 1
    /\ UNCHANGED <<content, lines, capturing, chapter_header, p_pc>>
    /\ UNCHANGED <<splitVars, mainVars, enrichVars, fdVars, cmpVars>>

PA_Return ==
    /\ p_pc = "appropriations"
    /\ ln = Len(lines)
    /\ records' = PAFinish([current_chunk |-> current_chunk, records |-> records,
                            fund_type |-> fund_type])
    /\ p_pc' = "done"
    /\ UNCHANGED <<content, lines, ln, current_chunk, fund_type, capturing,
                   chapter_header>>
    /\ UNCHANGED <<splitVars, mainVars, enrichVars, fdVars, cmpVars>>

InitApprop ==
    /\ content \in {joinLines(ls) : ls \in SeqsOf(ApLines, 1, MaxLines)}
    /\ lines = split(content)
    /\ ln = 0
    /\ current_chunk = PAStart.current_chunk
    /\ records = PAStart.records
    /\ fund_type = PAStart.fund_type
    /\ capturing = FALSE
    /\ chapter_header = ""
    /\ p_pc = "appropriations"
    /\ MainIdle /\ EnrichIdle /\ FdIdle /\ CmpIdle

NextApprop == PA_Line \/ PA_Return

SpecApprop == InitApprop /\ [][NextApprop]_vars

\* The (1-based) input lines that match the appropriation-code pattern.
MatchingLines == {i \in 1..Len(lines) : appropriation_code(strip(lines[i])) # None}

WithFlag(flag) == {i \in 1..Len(records) : records[i].Confidence_Flag = flag}

\* C3 as stated: when exactly one input line matches the appropriation-code
\* pattern, wherever it sits, the result holds exactly one High Confidence
\* record, bearing that line's code and amount, and at most one Needs Review
\* record, which comes last.
C3_OneHighConfidenceRecord ==
    (p_pc = "done" /\ Cardinality(MatchingLines) = 1)
    => LET m == strip(lines[CHOOSE i \in MatchingLines : TRUE])
       IN  /\ Cardinality(WithFlag("High Confidence")) = 1
           /\ \A i \in WithFlag("High Confidence") :
                /\ records[i].Appropriation_Code = appropriation_code(m)
                /\ records[i].Dollar_Amount = appropriation_group0(m)
           /\ Cardinality(WithFlag("Needs Review")) <= 1
           /\ \A i \in WithFlag("Needs Review") : i = Len(records)

\* C12 as stated: every High Confidence record's code and amount are the ones
\* matched on the first line of its own text block, and the block flagged
\* Needs Review holds no line matching the appropriation-code pattern.
C12_CodeFromOwnBlock ==
    p_pc = "done"
    => \A i \in 1..Len(records) :
         LET block == split(records[i].Appropriation)
         IN  /\ records[i].Confidence_Flag = "High Confidence"
                => /\ appropriation_code(block[1]) # None
                   /\ records[i].Appropriation_Code = appropriation_code(block[1])
                   /\ records[i].Dollar_Amount = appropriation_group0(block[1])
             /\ records[i].Confidence_Flag = "Needs Review"
                => \A j \in 1..Len(block) : appropriation_code(block[j]) = None

\* The matching lines that close a block: every one but a match on line 1.
ClosingLines == {m \in MatchingLines : m > 1}

\* The input line at which record i is emitted: the i-th closing line, or the
\* last line for the record the final flush emits.
EmissionLine(i) ==
    IF i <= Cardinality(ClosingLines)
    THEN CHOOSE m \in ClosingLines : Cardinality({x \in ClosingLines : x <= m}) = i
    ELSE Len(lines)

\* The input lines up to line n that match the fund-type pattern.
FundLinesUpTo(n) == {j \in 1..n : fund_pattern(strip(lines[j])) # None}

\* The fund type most recently matched up to and including line n.
FundTypeUpTo(n) ==
    IF FundLinesUpTo(n) = {} THEN "Unknown"
    ELSE fund_pattern(strip(lines[CHOOSE j \in FundLinesUpTo(n) :
                                      \A k \in FundLinesUpTo(n) : k <= j]))

\* C15: each record's Fund Type is the fund type most recently matched on any
\* input line up to and including the line at which the record is emitted,
\* "Unknown" if none has occurred by then; after a record with a fund type no
\* later record reports "Unknown".
C15_FundTypeAtEmission ==
    p_pc = "done"
    => /\ \A i \in 1..Len(records) :
            records[i].Fund_Type = FundTypeUpTo(EmissionLine(i))
       /\ \A i, j \in 1..Len(records) :
            (i < j /\ records[i].Fund_Type # "Unknown")
            => records[j].Fund_Type # "Unknown"

\* C15 witness: a High Confidence record was emitted at a line that itself
\* names a fund type different from the one in effect before it.
C15_Witness ==
    /\ p_pc = "done"
    /\ \E i \in WithFlag("High Confidence") :
         /\ fund_pattern(strip(lines[EmissionLine(i)])) # None
         /\ FundTypeUpTo(EmissionLine(i) - 1) # FundTypeUpTo(EmissionLine(i))
         /\ records[i].Fund_Type = FundTypeUpTo(EmissionLine(i))

\* C17: for every input text, the empty one included, the result holds at
\* least one record, exactly one record is flagged Needs Review, with code and
\* amount "N/A", and it is the last; the High Confidence records number the
\* matching lines, less one when the first line matches.
C17_OneNeedsReviewLast ==
    p_pc = "done"
    => /\ Len(records) >= 1
       /\ WithFlag("Needs Review") = {Len(records)}
       /\ records[Len(records)].Appropriation_Code = "N/A"
       /\ records[Len(records)].Dollar_Amount = "N/A"
       /\ Cardinality(WithFlag("High Confidence"))
            = Cardinality(MatchingLines) - (IF 1 \in MatchingLines THEN 1 ELSE 0)

\* C17 witness: the parser has returned on a text whose first line matches
\* and that holds a later matching line too.
C17_Witness ==
    /\ p_pc = "done"
    /\ 1 \in MatchingLines
    /\ Cardinality(MatchingLines) >= 2
    /\ Cardinality(WithFlag("High Confidence")) = Cardinality(MatchingLines) - 1

-----------------------------------------------------------------------------
(* process_reappropriations run on a text of up to MaxLines lines. *)

ReLines == {"By chapter 53, section 1, of the laws of 1998",
            "  grants (re. $796,000) ", "(re.$5,000)", "  re. $12,000", "", "   "}

PR_Line ==
    /\ p_pc = "reappropriations"
    /\ ln < Len(lines)
    /\ LET st == PRStep([current_chunk |-> current_chunk, records |-> records],
                        lines[ln + 1])
       IN  /\ current_chunk' = st.current_chunk
           /\ records' = st.records
    /\ ln' = ln + 1
    /\ UNCHANGED <<content, lines, fund_type, capturing, chapter_header, p_pc>>
    /\ UNCHANGED <<splitVars, mainVars, enrichVars, fdVars, cmpVars>>

PR_Return ==
    /\ p_pc = "reappropriations"
    /\ ln = Len(lines)
    /\ records' = PRFinish([current_chunk |-> current_chunk, records |-> records])
    /\ p_pc' = "done"
    /\ UNCHANGED <<content, lines, ln, current_chunk, fund_type, capturing,
                   chapter_header>>
    /\ UNCHANGED <<splitVars, mainVars, enrichVars, fdVars, cmpVars>>

InitReapprop ==
    /\ content \in {joinLines(ls) : ls \in SeqsOf(ReLines, 1, MaxLines)}
    /\ lines = split(content)
    /\ ln = 0
    /\ current_chunk = PRStart.current_chunk
    /\ records = PRStart.records
    /\ fund_type = "Unknown"
    /\ capturing = FALSE
    /\ chapter_header = ""
    /\ p_pc = "reappropriations"
    /\ MainIdle /\ EnrichIdle /\ FdIdle /\ CmpIdle

NextReapprop == PR_Line \/ PR_Return

SpecReapprop == InitReapprop /\ [][NextReapprop]_vars

\* The input holds no line with a parenthesised "(re. $amount)" marker.
NoMarkerLine ==
    \A i \in 1..Len(lines) :
        strip(lines[i]) \notin {"grants (re. $796,000)", "(re.$5,000)"}

\* C8: on a text without a marker line process_reappropriations returns
\* exactly one record, whose text is every input line, in order, each
\* stripped of surrounding whitespace.
C8_OneRecordWholeInput ==
    (p_pc = "done" /\ NoMarkerLine)
    => /\ Len(records) = 1
       /\ records[1].Reappropriation
             = joinLines([i \in 1..Len(lines) |-> strip(lines[i])])

\* C8 witness: the parser has returned on a text of several lines without a
\* marker, among them an unparenthesised "re. $amount" and a line of blanks.
C8_Witness ==
    /\ p_pc = "done"
    /\ NoMarkerLine
    /\ \E i \in 1..Len(lines) : lines[i] = "  re. $12,000"
    /\ \E i \in 1..Len(lines) : lines[i] = "   "

\* C13 as stated: the marker line is the last line of the record it closes:
\* every record but possibly the final one ends with a marker line, and no
\* record begins with a marker line unless that line is the first input line.
C13_MarkerEndsRecord ==
    p_pc = "done"
    => \A i \in 1..Len(records) :
         LET block == split(records[i].Reappropriation)
         IN  /\ i < Len(records) => reappropriation_pattern(block[Len(block)])
             /\ reappropriation_pattern(block[1])
                => (i = 1 /\ reappropriation_pattern(strip(lines[1])))

-----------------------------------------------------------------------------
(* Either block parser of Approp Text Blocks.py, run on a text of up to
   MaxLines lines. *)

InitBlocks == InitApprop \/ InitReapprop

NextBlocks == PA_Line \/ PA_Return \/ PR_Line \/ PR_Return

SpecBlocks == InitBlocks /\ [][NextBlocks]_vars

\* The text block of a record of either parser.
BlockOf(r) ==
    IF "Appropriation" \in DOMAIN r THEN r.Appropriation ELSE r.Reappropriation

\* C18: for process_appropriations and for process_reappropriations, the text
\* blocks of the returned records, joined in order with newlines, are the
\* input lines, each stripped of surrounding whitespace, joined with newlines:
\* no line is lost, duplicated or reordered.
C18_RecordsPartitionInput ==
    p_pc = "done"
    => join([i \in 1..Len(records) |-> BlockOf(records[i])])
         = joinLines([i \in 1..Len(lines) |-> strip(lines[i])])

\* C18 witness: process_reappropriations has returned several records on a
\* text with a marker after its first line and a line that strip() changes.
C18_Witness ==
    /\ p_pc = "done"
    /\ Len(records) >= 2
    /\ "Reappropriation" \in DOMAIN records[1]
    /\ \E i \in 2..Len(lines) : reappropriation_pattern(strip(lines[i]))
    /\ \E i \in 1..Len(lines) : strip(lines[i]) # lines[i]

-----------------------------------------------------------------------------
(* Reappropriations.py: extract_reappropriation_chunks, the citation-aware
   parser, run on a document of one page of up to MaxLines lines. *)

ChLines == {"By chapter 53, section 1, of the laws of 1998",
            "by chapter 53, section 1, of the laws of 1998",
            "12 By chapter 54, section 2, of the laws of 1999",
            "By  chapter 55, section 3 of the laws of 2000",
            "For services and expenses",
            "  grants (re. $796,000) ", "  re. $12,000", ""}

\* chapter_match.group(1), None without a match:
\* (By\s+chapter\s+\d+,\s+section\s+\d+,?\s+of\s+the\s+laws\s+of\s+\d{4}),
\* re.IGNORECASE, searched anywhere in the line.
chapter_match(line) ==
    CASE line = "By chapter 53, section 1, of the laws of 1998"
              -> "By chapter 53, section 1, of the laws of 1998"
      [] line = "by chapter 53, section 1, of the laws of 1998"
              -> "by chapter 53, section 1, of the laws of 1998"
      [] line = "12 By chapter 54, section 2, of the laws of 1999"
              -> "By chapter 54, section 2, of the laws of 1999"
      [] line = "By chapter 54, section 2, of the laws of 1999"
              -> "By chapter 54, section 2, of the laws of 1999"
      [] line = "By  chapter 55, section 3 of the laws of 2000"
              -> "By  chapter 55, section 3 of the laws of 2000"
      [] OTHER -> None

\* bool(re_match): re\.\s?\$amount searched anywhere in the line, no parentheses.
re_match(line) ==
    line \in {"grants (re. $796,000)", "re. $12,000", "(re.$5,000)"}

\* s.startswith("By chapter"): case-sensitive, one space, at the start.
startswithByChapter(s) ==
    s \in {"By chapter 53, section 1, of the laws of 1998",
           "By chapter 54, section 2, of the laws of 1999"}

\* all_lines: the lines of every page that has text.
all_lines(text) == IF text = << >> THEN << >> ELSE splitlines(text)

ERCStart == [current_chunk |-> << >>, records |-> << >>,
             capturing |-> FALSE, chapter_header |-> ""]

\* One iteration of the for loop.
ERCStep(st, raw) ==
    LET line == strip(raw)
    IN  IF chapter_match(line) # None
        THEN [st EXCEPT !.chapter_header = chapter_match(line),
                        !.current_chunk = <<line>>,
                        !.capturing = TRUE]
        ELSE IF st.capturing
        THEN LET chunk == Append(st.current_chunk, line)
             IN  IF re_match(line)
                 THEN LET stored == IF ~startswithByChapter(chunk[1])
                                    THEN <<st.chapter_header>> \o chunk
                                    ELSE chunk
                      IN  [st EXCEPT !.records = Append(st.records,
                                                  ReappropriationRecord(stored)),
                                     !.current_chunk = <<st.chapter_header>>]
                 ELSE [st EXCEPT !.current_chunk = chunk]
        ELSE st

ERC_Line ==
    /\ p_pc = "chunks"
    /\ ln < Len(lines)
    /\ LET st == ERCStep([current_chunk |-> current_chunk, records |-> records,
                          capturing |-> capturing,
                          chapter_header |-> chapter_header], lines[ln + 1])
       IN  /\ current_chunk' = st.current_chunk
           /\ records' = st.records
           /\ capturing' = st.capturing
           /\ chapter_header' = st.chapter_header
    /\ ln' = ln + 1
    /\ UNCHANGED <<content, lines, fund_type, p_pc>>
    /\ UNCHANGED <<splitVars, mainVars, enrichVars, fdVars, cmpVars>>

\* return records: an open chunk is not flushed.
ERC_Return ==
    /\ p_pc = "chunks"
    /\ ln = Len(lines)
    /\ p_pc' = "done"
    /\ UNCHANGED <<content, lines, ln, current_chunk, records, fund_type,
                   capturing, chapter_header>>
    /\ UNCHANGED <<splitVars, mainVars, enrichVars, fdVars, cmpVars>>

InitChunks ==
    /\ content \in {joinLines(ls) : ls \in SeqsOf(ChLines, 1, MaxLines)}
    /\ lines = all_lines(content)
    /\ ln = 0
    /\ current_chunk = ERCStart.current_chunk
    /\ records = ERCStart.records
    /\ capturing = ERCStart.capturing
    /\ chapter_header = ERCStart.chapter_header
    /\ fund_type = "Unknown"
    /\ p_pc = "chunks"
    /\ MainIdle /\ EnrichIdle /\ FdIdle /\ CmpIdle

NextChunks == ERC_Line \/ ERC_Return

SpecChunks == InitChunks /\ [][NextChunks]_vars

\* C14 as stated: whatever citation line the pattern accepted (other letter
\* case, extra spacing, text before it), a record, when emitted, holds the
\* active chapter citation exactly once, in its first line: the first line
\* cites the active chapter and no later line of the record holds a citation.
C14_CitationOnceFirst ==
    [][Len(records') = Len(records) + 1
       => LET block == split(records'[Len(records')].Reappropriation)
          IN  /\ chapter_match(block[1]) = chapter_header
              /\ \A j \in 2..Len(block) : chapter_match(block[j]) = None]_vars

-----------------------------------------------------------------------------
(* Extract Reapprop Details.py *)

Fields == <<"Reappropriation Amount", "Appropriation Amount",
            "Year of Appropriation", "Appropriation ID">>
FieldSet == {Fields[i] : i \in 1..Len(Fields)}

\* The value the service reports for a field.
fieldValue(f) ==
    CASE f = "Reappropriation Amount" -> "$796,000"
      [] f = "Appropriation Amount"   -> "$1,000,000"
      [] f = "Year of Appropriation"  -> "1998"
      [] f = "Appropriation ID"       -> "15503"

\* What message.content may hold: text that is no JSON, a JSON array, or a JSON
\* object with some of the four fields.
Payloads ==
    {[json |-> "invalid", keys |-> {}], [json |-> "array", keys |-> {}]}
    \cup {[json |-> "object", keys |-> K] :
            K \in {FieldSet, {}, {"Reappropriation Amount"},
                   FieldSet \ {"Appropriation ID"}}}

\* What the service does for one request: the call raises, the response has
\* no choices, or it has a message whose content is None or a payload, bare or
\* inside a ```json fence (closed, or left open).
Responses ==
    {[kind |-> k, fence |-> "none", payload |-> [json |-> "invalid", keys |-> {}]] :
        k \in {"api_error", "no_choices", "content_none"}}
    \cup {[kind |-> "content", fence |-> f, payload |-> p] :
            f \in {"none", "closed", "open"}, p \in Payloads}

AllNA == [type |-> "dict", dict |-> [f \in FieldSet |-> "N/A"]]

\* extracted_data after the fence is removed: [7:-3] cuts the last three
\* characters of the payload itself when the fence was never closed.
unfence(r) ==
    IF r.fence = "open" THEN [json |-> "invalid", keys |-> {}] ELSE r.payload

\* json.loads(extracted_data): a Python value, or "JSONDecodeError".
json_loads(p) ==
    CASE p.json = "object" -> [type |-> "dict", dict |-> [f \in p.keys |-> fieldValue(f)]]
      [] p.json = "array"  -> [type |-> "list", dict |-> << >>]
      [] OTHER             -> [type |-> "JSONDecodeError", dict |-> << >>]

\* extract_values_from_text, given what the service does.
extract_values_from_text(r) ==
    CASE r.kind = "api_error"    -> AllNA      \* except Exception
      [] r.kind = "no_choices"   -> AllNA      \* the validation of the response
      [] r.kind = "content_none" -> AllNA      \* None.strip(): except Exception
      [] OTHER ->
           IF json_loads(unfence(r)).type = "JSONDecodeError"
           THEN AllNA                          \* except json.JSONDecodeError
           ELSE json_loads(unfence(r))

\* extracted_data[f] raises KeyError or TypeError.
SubscriptRaises(v, f) == v.type # "dict" \/ f \notin DOMAIN v.dict

\* The number of leading df.at assignments that run before one raises.
Assigned(v) ==
    IF \E k \in 1..Len(Fields) : SubscriptRaises(v, Fields[k])
    THEN (CHOOSE k \in 1..Len(Fields) :
            /\ SubscriptRaises(v, Fields[k])
            /\ \A j \in 1..(k - 1) : ~SubscriptRaises(v, Fields[j])) - 1
    ELSE Len(Fields)

\* One iteration of `for idx, row in df.iterrows()`.
EN_Row ==
    /\ en_pc = "loop"
    /\ idx < Len(df)
    /\ \E r \in Responses :
         LET v == extract_values_from_text(r)
             n == Assigned(v)
         IN  /\ df' = [df EXCEPT ![idx + 1] =
                          [f \in DOMAIN df[idx + 1] |->
                              IF \E k \in 1..n : Fields[k] = f
                              THEN v.dict[f] ELSE df[idx + 1][f]]]
             /\ en_responses' = Append(en_responses, r)
             /\ IF n = Len(Fields)
                THEN idx' = idx + 1 /\ en_pc' = en_pc
                ELSE idx' = idx /\ en_pc' = "raised"
    /\ UNCHANGED en_written
    /\ UNCHANGED <<splitVars, mainVars, parseVars, fdVars, cmpVars>>

\* df.to_csv(input_csv, index=False)
EN_Save ==
    /\ en_pc = "loop"
    /\ idx = Len(df)
    /\ en_written' = TRUE
    /\ en_pc' = "done"
    /\ UNCHANGED <<df, idx, en_responses>>
    /\ UNCHANGED <<splitVars, mainVars, parseVars, fdVars, cmpVars>>

\* A row of the input CSV after the four columns are added.
NewRow == [f \in FieldSet \cup {"Reappropriation"} |->
              IF f = "Reappropriation" THEN "grants (re. $796,000)" ELSE "N/A"]

InitEnrich ==
    /\ df \in SeqsOf({NewRow}, 0, MaxRows)
    /\ idx = 0
    /\ en_pc = "loop"
    /\ en_written = FALSE
    /\ en_responses = << >>
    /\ MainIdle /\ ParseIdle /\ FdIdle /\ CmpIdle

NextEnrich == EN_Row \/ EN_Save

SpecEnrich == InitEnrich /\ [][NextEnrich]_vars

\* The service supplied field f in response r: a JSON object holding it.
Supplies(r, f) ==
    /\ r.kind = "content"
    /\ unfence(r).json = "object"
    /\ f \in unfence(r).keys

\* C4 as stated: whatever the service does for one record, the record ends
\* with "N/A" in the fields the response could not supply, the later records
\* are still processed and the CSV is written at the end; nothing aborts the
\* batch.
C4_NoResponseAbortsBatch ==
    /\ en_pc # "raised"
    /\ \A i \in 1..Len(en_responses) : \A f \in FieldSet :
         df[i][f] = IF Supplies(en_responses[i], f) THEN fieldValue(f) ELSE "N/A"
    /\ en_pc = "done" => (en_written /\ Len(en_responses) = Len(df))

-----------------------------------------------------------------------------
(* final_budget_comparison.py: the records and _find_discrepancies. *)

Agencies == {"DEPT OF HEALTH", "DEPT OF LABOR"}

\* The records extract_budget_data can emit for a budget: an appropriation
\* always carries a 5-digit id, a reappropriation the id found on its line or
\* "N/A".  text, page and year are carried like budget_type and are left out.
BudgetLineRecords(source) ==
    {[type |-> "appropriation", agency |-> a, budget_type |-> "STATE OPERATIONS",
      appropriation_id |-> "12345", amount |-> 500000, source |-> source] :
        a \in Agencies}
    \cup {[type |-> "reappropriation", agency |-> a, budget_type |-> "STATE OPERATIONS",
           appropriation_id |-> id, amount |-> 500000, source |-> source] :
            a \in Agencies, id \in {"12345", "N/A"}}

\* A lookup that takes the key of every executive record.
AddExecutiveKey_AnyType(keys, row) == keys \cup {<<row.agency, row.appropriation_id>>}

\* The body of the loop over executive_df.
AddExecutiveKey(keys, row) ==
    IF row.type = "reappropriation"
    THEN keys \cup {<<row.agency, row.appropriation_id>>}
    ELSE keys

Discrepancy(row) ==
    [agency           |-> row.agency,
     budget_type      |-> row.budget_type,
     appropriation_id |-> row.appropriation_id,
     enacted_amount   |-> row.amount,
     enacted_type     |-> row.type,
     description      |-> <<"Enacted ", row.type,
                            " should appear as reappropriation in executive budget">>]

\* The body of the loop over enacted_df.
CheckEnactedRow(found, keys, row) ==
    IF row.appropriation_id = "N/A" THEN found
    ELSE IF <<row.agency, row.appropriation_id>> \notin keys
         THEN Append(found, Discrepancy(row))
         ELSE found

\* An entry that keeps the list of the call before.
FD_Enter_KeepsList ==
    /\ discrepancies' = discrepancies
    /\ executive_reappropriations' = {}
    /\ fd_i' = 0
    /\ fd_pc' = "executive"

\* Entry of _find_discrepancies: the two locals start empty.
FD_Enter ==
    /\ discrepancies' = << >>
    /\ executive_reappropriations' = {}
    /\ fd_i' = 0
    /\ fd_pc' = "executive"

FD_ExecutiveRow ==
    /\ fd_pc = "executive"
    /\ fd_i < Len(executive_df)
    /\ executive_reappropriations' =
          AddExecutiveKey(executive_reappropriations, executive_df[fd_i + 1])
    /\ fd_i' = fd_i + 1
    /\ UNCHANGED <<enacted_data, executive_data, enacted_df, executive_df,
                   discrepancies, fd_pc, returned>>
    /\ UNCHANGED <<splitVars, mainVars, parseVars, enrichVars, cmpVars>>

FD_ExecutiveDone ==
    /\ fd_pc = "executive"
    /\ fd_i = Len(executive_df)
    /\ fd_pc' = "enacted"
    /\ fd_i' = 0
    /\ UNCHANGED <<enacted_data, executive_data, enacted_df, executive_df,
                   executive_reappropriations, discrepancies, returned>>
    /\ UNCHANGED <<splitVars, mainVars, parseVars, enrichVars, cmpVars>>

FD_EnactedRow ==
    /\ fd_pc = "enacted"
    /\ fd_i < Len(enacted_df)
    /\ discrepancies' =
          CheckEnactedRow(discrepancies, executive_reappropriations, enacted_df[fd_i + 1])
    /\ fd_i' = fd_i + 1
    /\ UNCHANGED <<enacted_data, executive_data, enacted_df, executive_df,
                   executive_reappropriations, fd_pc, returned>>
    /\ UNCHANGED <<splitVars, mainVars, parseVars, enrichVars, cmpVars>>

FD_Return ==
    /\ fd_pc = "enacted"
    /\ fd_i = Len(enacted_df)
    /\ returned' = Append(returned, discrepancies)
    /\ fd_pc' = "returned"
    /\ UNCHANGED <<enacted_data, executive_data, enacted_df, executive_df,
                   executive_reappropriations, discrepancies, fd_i>>
    /\ UNCHANGED <<splitVars, mainVars, parseVars, enrichVars, cmpVars>>

-----------------------------------------------------------------------------
(* _find_discrepancies called up to MaxCalls times on the analyzer's data. *)

FD_Call ==
    /\ c_pc = "idle"
    /\ fd_pc \in {"ready", "returned"}
    /\ Len(returned) < MaxCalls
    /\ FD_Enter
    /\ UNCHANGED <<enacted_data, executive_data, enacted_df, executive_df, returned>>
    /\ UNCHANGED <<splitVars, mainVars, parseVars, enrichVars, cmpVars>>

InitReconcile ==
    /\ enacted_data \in SeqsOf(BudgetLineRecords("enacted"), 0, MaxEnacted)
    /\ executive_data \in SeqsOf(BudgetLineRecords("executive"), 0, MaxExecutive)
    /\ enacted_df = enacted_data
    /\ executive_df = executive_data
    /\ executive_reappropriations = {}
    /\ discrepancies = << >>
    /\ fd_i = 0
    /\ fd_pc = "ready"
    /\ returned = << >>
    /\ MainIdle /\ ParseIdle /\ EnrichIdle /\ CmpIdle

NextReconcile ==
    \/ FD_Call
    \/ FD_ExecutiveRow
    \/ FD_ExecutiveDone
    \/ FD_EnactedRow
    \/ FD_Return

SpecReconcile == InitReconcile /\ [][NextReconcile]_vars

\* The keys of the executive records of type reappropriation.
ReappropriationKeys ==
    {<<executive_df[i].agency, executive_df[i].appropriation_id>> :
        i \in {j \in 1..Len(executive_df) : executive_df[j].type = "reappropriation"}}

\* The enacted record is one the report must list.
Missing(row) ==
    /\ row.appropriation_id # "N/A"
    /\ <<row.agency, row.appropriation_id>> \notin ReappropriationKeys

\* The discrepancies of the first n enacted records, in their order.
RECURSIVE Expected(_)
Expected(n) ==
    IF n = 0 THEN << >>
    ELSE IF Missing(enacted_df[n])
         THEN Append(Expected(n - 1), Discrepancy(enacted_df[n]))
         ELSE Expected(n - 1)

\* C1: _find_discrepancies returns, in enacted order and with multiplicity,
\* one discrepancy for each enacted record whose appropriation_id is not "N/A"
\* and whose (agency, appropriation_id) is the key of no executive record of
\* type reappropriation, and none for any other enacted record; no
\* discrepancy carries the id "N/A".
C1_ExactlyTheMissing ==
    fd_pc = "returned"
    => /\ discrepancies = Expected(Len(enacted_df))
       /\ returned[Len(returned)] = discrepancies
       /\ \A i \in 1..Len(discrepancies) : discrepancies[i].appropriation_id # "N/A"

\* C1 witness: a call has returned a discrepancy whose key an executive
\* record of type appropriation carries, while another enacted record
\* (matched, or with id "N/A") was passed over.
C1_Witness ==
    /\ fd_pc = "returned"
    /\ Len(discrepancies) >= 1
    /\ Len(discrepancies) < Len(enacted_df)
    /\ \E i \in 1..Len(executive_df) :
         /\ executive_df[i].type = "appropriation"
         /\ executive_df[i].agency = discrepancies[1].agency
         /\ executive_df[i].appropriation_id = discrepancies[1].appropriation_id

\* C2: every call of _find_discrepancies on the same collections returns the
\* same list, and no step of a call changes the two collections or the
\* analyzer's enacted_data and executive_data.
C2_Idempotent ==
    [][/\ \A i, j \in 1..Len(returned') : returned'[i] = returned'[j]
       /\ enacted_df' = enacted_df
       /\ executive_df' = executive_df
       /\ enacted_data' = enacted_data
       /\ executive_data' = executive_data]_vars

\* C2 witness: two calls in a row have returned, with a discrepancy to report.
C2_Witness ==
    /\ Len(returned) >= 2
    /\ returned[1] # << >>
    /\ fd_pc = "returned"

-----------------------------------------------------------------------------
(* final_budget_comparison.py: main, analyze_budgets and _generate_report. *)

\* The entry point: with no argument the default file names are analysed, with
\* two main() analyses the named files, otherwise main() prints the usage.
Cmp_Start ==
    /\ c_pc = "start"
    /\ \E n \in {1, 2, 3} :
         /\ c_argc' = n
         /\ IF n = 2
            THEN c_pc' = "done" /\ c_log' = Append(c_log, "Usage")
            ELSE c_pc' = "extract_enacted" /\ UNCHANGED c_log
    /\ UNCHANGED <<c_extracted, c_files>>
    /\ UNCHANGED <<splitVars, mainVars, parseVars, enrichVars, fdVars>>

\* What the handler around analyze_budgets prints for a FileNotFoundError.
Handler == IF c_argc = 3 THEN "Error: Could not find file" ELSE "Error"

\* An analyzer that saves the enacted data as soon as it is extracted.
Analyze_ExtractEnacted_SavesAtOnce ==
    /\ c_pc = "extract_enacted"
    /\ \E opened \in BOOLEAN :
         IF opened
         THEN /\ \E recs \in SeqsOf(BudgetLineRecords("enacted"), 0, MaxEnacted) :
                   enacted_data' = recs
              /\ c_extracted' = c_extracted \cup {"enacted"}
              /\ c_files' = c_files \cup {"enacted_budget_data.csv"}
              /\ c_pc' = "extract_executive"
              /\ UNCHANGED c_log
         ELSE /\ c_pc' = "caught"
              /\ c_log' = Append(c_log, Handler)
              /\ UNCHANGED <<enacted_data, c_extracted, c_files>>
    /\ UNCHANGED <<executive_data, enacted_df, executive_df,
                   executive_reappropriations, discrepancies, fd_i, fd_pc, returned>>
    /\ UNCHANGED <<c_argc, splitVars, mainVars, parseVars, enrichVars>>

\* self.enacted_data = self.extract_budget_data(enacted_pdf, "enacted"):
\* pdfplumber.open raises, or the records of the PDF are returned.
Analyze_ExtractEnacted ==
    /\ c_pc = "extract_enacted"
    /\ \E opened \in BOOLEAN :
         IF opened
         THEN /\ \E recs \in SeqsOf(BudgetLineRecords("enacted"), 0, MaxEnacted) :
                   enacted_data' = recs
              /\ c_extracted' = c_extracted \cup {"enacted"}
              /\ c_pc' = "extract_executive"
              /\ UNCHANGED c_log
         ELSE /\ c_pc' = "caught"
              /\ c_log' = Append(c_log, Handler)
              /\ UNCHANGED <<enacted_data, c_extracted>>
    /\ UNCHANGED <<executive_data, enacted_df, executive_df,
                   executive_reappropriations, discrepancies, fd_i, fd_pc, returned>>
    /\ UNCHANGED <<c_argc, c_files, splitVars, mainVars, parseVars, enrichVars>>

\* self.executive_data = self.extract_budget_data(executive_pdf, "executive")
Analyze_ExtractExecutive ==
    /\ c_pc = "extract_executive"
    /\ \E opened \in BOOLEAN :
         IF opened
         THEN /\ \E recs \in SeqsOf(BudgetLineRecords("executive"), 0, MaxExecutive) :
                   executive_data' = recs
              /\ c_extracted' = c_extracted \cup {"executive"}
              /\ c_pc' = "save"
              /\ UNCHANGED c_log
         ELSE /\ c_pc' = "caught"
              /\ c_log' = Append(c_log, Handler)
              /\ UNCHANGED <<executive_data, c_extracted>>
    /\ UNCHANGED <<enacted_data, enacted_df, executive_df,
                   executive_reappropriations, discrepancies, fd_i, fd_pc, returned>>
    /\ UNCHANGED <<c_argc, c_files, splitVars, mainVars, parseVars, enrichVars>>

\* The two DataFrames are built and written.
Analyze_Save ==
    /\ c_pc = "save"
    /\ enacted_df' = enacted_data
    /\ executive_df' = executive_data
    /\ c_files' = c_files \cup {"enacted_budget_data.csv", "executive_budget_data.csv"}
    /\ c_pc' = "find"
    /\ UNCHANGED <<enacted_data, executive_data, executive_reappropriations,
                   discrepancies, fd_i, fd_pc, returned>>
    /\ UNCHANGED <<c_argc, c_extracted, c_log>>
    /\ UNCHANGED <<splitVars, mainVars, parseVars, enrichVars>>

\* discrepancies = self._find_discrepancies(enacted_df, executive_df)
Analyze_Find ==
    /\ c_pc = "find"
    /\ fd_pc = "idle"
    /\ FD_Enter
    /\ UNCHANGED <<enacted_data, executive_data, enacted_df, executive_df, returned>>
    /\ UNCHANGED <<splitVars, mainVars, parseVars, enrichVars, cmpVars>>

\* self._generate_report(discrepancies): nothing is written for an empty list.
Analyze_Report ==
    /\ c_pc = "find"
    /\ fd_pc = "returned"
    /\ c_files' = IF discrepancies = << >> THEN c_files
                  ELSE c_files \cup {"budget_discrepancies.csv", "analysis_summary.json"}
    /\ c_pc' = "done"
    /\ UNCHANGED <<c_argc, c_extracted, c_log>>
    /\ UNCHANGED <<splitVars, mainVars, parseVars, enrichVars, fdVars>>

InitCompare ==
    /\ c_pc = "start"
    /\ c_argc = 1
    /\ c_extracted = {}
    /\ c_files = {}
    /\ c_log = << >>
    /\ MainIdle /\ ParseIdle /\ EnrichIdle /\ FdIdle

NextCompare ==
    \/ Cmp_Start
    \/ Analyze_ExtractEnacted
    \/ Analyze_ExtractExecutive
    \/ Analyze_Save
    \/ Analyze_Find
    \/ FD_ExecutiveRow
    \/ FD_ExecutiveDone
    \/ FD_EnactedRow
    \/ FD_Return
    \/ Analyze_Report

SpecCompare == InitCompare /\ [][NextCompare]_vars

\* C10: when opening the enacted or the executive PDF fails, the error is
\* caught and logged and no output file has been written; the two data CSVs
\* are written only once both extractions have succeeded, and the discrepancy
\* CSV and the JSON summary only after the two data CSVs.
C10_NoOutputOnInputError ==
    /\ c_pc = "caught" => (c_files = {} /\ c_log # << >>)
    /\ c_files \cap {"enacted_budget_data.csv", "executive_budget_data.csv"} # {}
          => c_extracted = {"enacted", "executive"}
    /\ c_files \cap {"budget_discrepancies.csv", "analysis_summary.json"} # {}
          => {"enacted_budget_data.csv", "executive_budget_data.csv"} \subseteq c_files

\* C10 witness: the executive PDF failed to open after the enacted PDF had
\* been extracted, and the handler has caught the error.
C10_Witness ==
    /\ c_pc = "caught"
    /\ c_extracted = {"enacted"}
    /\ enacted_data # << >>

=============================================================================
